---- MODULE Spec2Model ----
(***************************************************************************)
(* Proto-value functions on a grid world (src/pvf.py).                     *)
(*                                                                         *)
(* Numbers.  Every float the program handles in the modelled cases is a    *)
(* multiple of 0.25 or a ratio of two small integers:                      *)
(*   - edge weights, row sums, Laplacian entries and eigenvalues are kept  *)
(*     as integers counting quarters (Quarter = 0.25, One = 1.0);          *)
(*   - a normalized eigenvector component is the reduced fraction          *)
(*     <<num, den>>, den > 0.                                              *)
(* numpy.linalg.eigh is a library call: it is modelled by its contract,    *)
(* any eigen-decomposition (ascending eigenvalues, mutually orthogonal     *)
(* non-zero eigenvectors satisfying L v = w v).  An eigenvector is held by *)
(* the shortest integer vector of its direction (the solver's unit vector  *)
(* is a positive multiple of it; the division by its own largest magnitude *)
(* gives the same quotients for both).  Sign and the basis of a degenerate *)
(* eigenspace are the solver's choice.                                     *)
(***************************************************************************)
EXTENDS Integers, Sequences, FiniteSets, TLC

\* Bounds of the model.
MaxSide == 2      \* grids with width <= MaxSide and height <= MaxSide
MaxCells == 4     \* and with width*height <= MaxCells
MaxComp == 2      \* eigenvector directions have components in -MaxComp..MaxComp

\* 0.25, the edge weight, is the unit of the fixed-point numbers.
Quarter == 1
One == 4 * Quarter

VARIABLES width, height, active, pvfs, ret, current_pvf, pvfselect_to

vars == <<width, height, active, pvfs, ret, current_pvf, pvfselect_to>>

\* Python's None for an optional argument is <<>>, a given value v is <<v>>.
None == <<>>
Some(v) == <<v>>

Abs(a) == IF a < 0 THEN -a ELSE a
Min2(a, b) == IF a <= b THEN a ELSE b

RECURSIVE Gcd(_, _)
Gcd(a, b) == IF b = 0 THEN a ELSE Gcd(b, a % b)

RECURSIVE SumTo(_, _)
\* f[1] + ... + f[n]
SumTo(f, n) == IF n = 0 THEN 0 ELSE f[n] + SumTo(f, n - 1)

\* The float num/den as a reduced fraction (den # 0).
Frac(num, den) ==
    LET g == Gcd(Abs(num), Abs(den))
        s == IF den < 0 THEN -1 ELSE 1
    IN  <<(s * num) \div g, (s * den) \div g>>

FracZero == <<0, 1>>

\* The function f and the matrix m themselves, with their values computed
\* once instead of at every application (no change of meaning).
Strict(f) == f @@ <<>>
StrictMat(m) == Strict([i \in DOMAIN m |-> Strict(m[i])])

------------------------------------------------------------------------------
(* GridWorld *)

Shapes == {s \in (1..MaxSide) \X (1..MaxSide) : s[1] * s[2] <= MaxCells}

\* Cell (x, y) of a w-wide grid in the row-major order of numpy's reshape.
CellOf(w, x, y) == y * w + x
XOf(w, c) == c % w
YOf(w, c) == c \div w

\* GridWorld.__init__: the weight connect() stores for the cells c0, c1.
graph(w, h, c0, c1) ==
    LET x0 == XOf(w, c0)
        y0 == YOf(w, c0)
        x1 == XOf(w, c1)
        y1 == YOf(w, c1)
    IN  IF \/ (x1 = x0 + 1 /\ y1 = y0) \/ (x1 = x0 /\ y1 = y0 + 1)
           \/ (x0 = x1 + 1 /\ y0 = y1) \/ (x0 = x1 /\ y0 = y1 + 1)
        THEN Quarter
        ELSE 0

\* numpy's index into an axis of length n: negative indices count from the
\* end, anything outside -n..n-1 raises IndexError (here: -1).
NumpyAxisIndex(i, n) ==
    IF 0 <= i /\ i < n THEN i
    ELSE IF -n <= i /\ i < 0 THEN i + n
    ELSE -1

\* The cell self._active[y, x] addresses, -1 when numpy raises IndexError.
ActiveCell(w, h, x, y) ==
    LET yy == NumpyAxisIndex(y, h)
        xx == NumpyAxisIndex(x, w)
    IN  IF yy = -1 \/ xx = -1 THEN -1 ELSE CellOf(w, xx, yy)

NumActive(act) == Cardinality({c \in DOMAIN act : act[c]})

------------------------------------------------------------------------------
(* GridWorldPVF.__init__ *)

\* The cells selected by the boolean mask, in ascending (row-major) order.
ActiveIndices(act, nc) ==
    SelectSeq([i \in 1..nc |-> i - 1], LAMBDA c : act[c])

\* graph[active][:, active]: the rows, then the columns, of the active cells.
Subgraph(w, h, act) ==
    LET idx == ActiveIndices(act, w * h)
        n == Len(idx)
    IN  StrictMat([i \in 1..n |-> [j \in 1..n |-> graph(w, h, idx[i], idx[j])]])

\* np.sum(m, axis=0): the sum of each column.
ColSums(m) ==
    LET n == Len(m)
    IN  Strict([j \in 1..n |-> SumTo([i \in 1..n |-> m[i][j]], n)])

\* DegreeCorrect without the correction of the diagonal.
DegreeCorrectNone(sub) == sub

\* subgraph.flat[::n+1] += 1 - np.sum(subgraph, axis=0)
DegreeCorrect(sub) ==
    LET n == Len(sub)
        cs == ColSums(sub)
    IN  StrictMat([i \in 1..n |-> [j \in 1..n |->
            IF i = j THEN sub[i][j] + (One - cs[j]) ELSE sub[i][j]]])

\* floor(sqrt(q))
ISqrt(q) == CHOOSE s \in 0..q : s * s <= q /\ (s + 1) * (s + 1) > q

\* np.sqrt of a sum of quarters q: sqrt(q/4) = sqrt(q)/2, held in halves;
\* -1 when the root is irrational (no fixed-point value).
SqrtHalves(q) == IF ISqrt(q) * ISqrt(q) = q THEN ISqrt(q) ELSE -1

\* normalized_laplacian: graph /= sqrt_rowsums; graph /= sqrt_rowsums.T;
\* eye - graph.  The divisions are unconditional: a zero root makes the
\* quotient inf or nan ("nonfinite").  A quotient the fixed-point numbers
\* cannot hold is "inexact".  Entry (i, j) in quarters is
\* g[i][j] / ((s[i]/2) * (s[j]/2)) = 4 * g[i][j] / (s[i] * s[j]).
normalized_laplacian(g) ==
    LET n == Len(g)
        cs == ColSums(g)
        s == Strict([j \in 1..n |-> SqrtHalves(cs[j])])
    IN  IF \E j \in 1..n : s[j] = 0
        THEN [status |-> "nonfinite", m |-> <<>>]
        ELSE IF \/ \E j \in 1..n : s[j] = -1
                \/ \E i, j \in 1..n : (4 * g[i][j]) % (s[i] * s[j]) # 0
        THEN [status |-> "inexact", m |-> <<>>]
        ELSE [status |-> "ok",
              m |-> StrictMat([i \in 1..n |-> [j \in 1..n |->
                        (IF i = j THEN One ELSE 0)
                        - ((4 * g[i][j]) \div (s[i] * s[j]))]])]

RECURSIVE DotTo(_, _, _)
DotTo(u, v, n) == IF n = 0 THEN 0 ELSE u[n] * v[n] + DotTo(u, v, n - 1)

Dot(u, v, n) == DotTo(u, v, n)

RECURSIVE GcdTo(_, _)
\* gcd(|v[1]|, ..., |v[n]|)
GcdTo(v, n) == IF n = 0 THEN 0 ELSE Gcd(Abs(v[n]), GcdTo(v, n - 1))

\* The directions in n dimensions, each by its shortest integer vector.
Directions(n) == {v \in [1..n -> -MaxComp..MaxComp] : GcdTo(v, n) = 1}

\* The eigenpairs (w, v) of the symmetric matrix L: a direction v with
\* L v = w v.  The spectrum of a normalized Laplacian lies in [0, 2].
EigPairs(L, n) ==
    UNION {{[w |-> w, v |-> v] :
              w \in {w \in 0..(2 * One) :
                       \A i \in 1..n : Dot(L[i], v, n) = w * v[i]}} :
            v \in Directions(n)}

RECURSIVE EighSeqs(_, _, _)
\* The ascending, mutually orthogonal sequences of k of the eigenpairs.
EighSeqs(pairs, n, k) ==
    IF k = 0 THEN {<<>>}
    ELSE UNION {{Append(part, q) :
                    q \in {q \in pairs :
                             /\ k > 1 => part[k - 1].w <= q.w
                             /\ \A i \in 1..(k - 1) : Dot(part[i].v, q.v, n) = 0}} :
                 part \in EighSeqs(pairs, n, k - 1)}

\* np.linalg.eigh(L): (eigenvalues ascending, eigenvectors as columns):
\* eigvecs[j][k] is component j of eigenvector k.
Eigh(L) ==
    LET n == Len(L)
    IN  UNION {{[eigvals |-> [k \in 1..n |-> d[k].w],
                 eigvecs |-> StrictMat([j \in 1..n |-> [k \in 1..n |-> d[k].v[j]]])] :
                    d \in EighSeqs(pairs, n, n)} :
                 pairs \in {EigPairs(L, n)}}

\* self._eigvals[self._eigvals < 0] = 0
ClampEigvals(ev) == [k \in 1..Len(ev) |-> IF ev[k] < 0 THEN 0 ELSE ev[k]]

\* max over a non-empty set
MaxOf(S) == CHOOSE m \in S : \A x \in S : x <= m

\* np.amax(np.absolute(eigvecs), axis=0, keepdims=True), then
\* eigvec_max[eigvec_max == 0] = 1.0: the largest magnitude of column k.
EigvecMax(eigvecs, k) ==
    LET m == MaxOf({Abs(eigvecs[j][k]) : j \in 1..Len(eigvecs)})
    IN  IF m = 0 THEN 1 ELSE m

\* eigvecs /= eigvec_max
NormalizeEigvecs(eigvecs) ==
    LET n == Len(eigvecs)
        mx == Strict([k \in 1..n |-> EigvecMax(eigvecs, k)])
    IN  StrictMat([j \in 1..n |-> [k \in 1..n |-> Frac(eigvecs[j][k], mx[k])]])

\* Embed writing row j to the j-th cell of the grid instead of the j-th
\* active cell.
EmbedByPosition(act, nc, eigvecs) ==
    LET n == Len(eigvecs)
    IN  [c \in 0..(nc - 1) |->
            IF c < n THEN eigvecs[c + 1] ELSE [k \in 1..n |-> FracZero]]

\* self._eigvecs = np.zeros((height, width, n));
\* np.reshape(self._eigvecs, (num_cells, n))[active] = eigvecs:
\* the j-th selected cell receives row j.  A cell's entry is the sequence of
\* its values in the n basis functions.
Embed(act, nc, eigvecs) ==
    LET idx == ActiveIndices(act, nc)
        n == Len(eigvecs)
    IN  [c \in 0..(nc - 1) |->
            IF act[c]
            THEN eigvecs[CHOOSE j \in 1..n : idx[j] = c]
            ELSE [k \in 1..n |-> FracZero]]

\* The outcomes of GridWorldPVF(gridworld): the object built, or the exception.
\*   - no active cell: np.amax reduces a (0, 0) array over its empty axis 0,
\*     "zero-size array to reduction operation maximum which has no identity"
\*     (ValueError, line 59);
\*   - rowsums, normvecs and activeAt record intermediate values of the
\*     construction (the column sums handed to np.sqrt, the eigenvectors
\*     before re-embedding, the mask used).
GridWorldPVF(w, h, act) ==
    LET sub == DegreeCorrect(Subgraph(w, h, act))
        lap == normalized_laplacian(sub)
        base == [raised |-> "none", eigvals |-> <<>>, eigvecs |-> <<>>,
                 normvecs |-> <<>>, rowsums |-> ColSums(sub), activeAt |-> act]
    IN  IF lap.status # "ok"
        THEN {[base EXCEPT !.raised = lap.status]}
        ELSE IF Len(sub) = 0
        THEN {[base EXCEPT !.raised = "ValueError"]}
        ELSE {LET nv == NormalizeEigvecs(e.eigvecs)
              IN  [base EXCEPT !.eigvals = ClampEigvals(e.eigvals),
                               !.normvecs = nv,
                               !.eigvecs = Embed(act, w * h, nv)] :
                e \in Eigh(lap.m)}

\* GridWorldPVF tabulated over the grids of the model (its outcomes depend
\* on the shape and the mask alone).
PvfTable ==
    [g \in UNION {{<<s[1], s[2], act>> : act \in [0..(s[1] * s[2] - 1) -> BOOLEAN]} :
                    s \in Shapes} |->
        GridWorldPVF(g[1], g[2], g[3])] @@ <<>>

\* GridWorldPVF.__len__
PvfLen(p) == Len(p.eigvals)

------------------------------------------------------------------------------
(* GridWorldPVF queries *)

\* self._eigvecs[..., i]: basis function i (0-based) as a grid, cell -> value.
PvfGrid(p, i) == [c \in DOMAIN p.eigvecs |-> p.eigvecs[c][i + 1]]

\* GridWorldPVF.__getitem__ for an integer i (the elif and else branches).
GetInt(p, i) ==
    IF 0 <= i /\ i < PvfLen(p)
    THEN [raised |-> "none", value |-> <<p.eigvals[i + 1], PvfGrid(p, i)>>]
    ELSE [raised |-> "IndexError", value |-> <<>>]

\* PySlice_AdjustIndices for one bound b of slice.indices(n); lo and hi are
\* the values a bound below and above the sequence is clamped to.
AdjustBound(b, n, lo, hi) ==
    IF b < 0
    THEN (IF b + n < 0 THEN lo ELSE b + n)
    ELSE (IF b >= n THEN hi ELSE b)

\* slice(start, stop, step).indices(n): the 3-tuple (start, stop, step).
\* step is not 0 (slice.indices raises ValueError for it).
SliceIndices(sl, n) ==
    LET step == IF sl.step = None THEN 1 ELSE sl.step[1]
        lo == IF step < 0 THEN -1 ELSE 0
        hi == IF step < 0 THEN n - 1 ELSE n
        start == IF sl.start = None
                 THEN (IF step < 0 THEN hi ELSE lo)
                 ELSE AdjustBound(sl.start[1], n, lo, hi)
        stop == IF sl.stop = None
                THEN (IF step < 0 THEN lo ELSE hi)
                ELSE AdjustBound(sl.stop[1], n, lo, hi)
    IN  <<start, stop, step>>

RECURSIVE GetEach(_, _)
\* [self[j] for j in js]: the items in order, or the first exception.
GetEach(p, js) ==
    IF js = <<>> THEN [raised |-> "none", value |-> <<>>]
    ELSE LET first == GetInt(p, Head(js))
             rest == GetEach(p, Tail(js))
         IN  IF first.raised # "none" THEN first
             ELSE IF rest.raised # "none" THEN rest
             ELSE [raised |-> "none", value |-> <<first.value>> \o rest.value]

\* GridWorldPVF.__getitem__ for a slice: the comprehension iterates over the
\* tuple slice.indices returns, that is over start, stop and step themselves.
GetSlice(p, sl) == GetEach(p, SliceIndices(sl, PvfLen(p)))

\* GridWorldPVF.min_eigval: np.amin raises ValueError on an empty array.
min_eigval(p) ==
    IF PvfLen(p) = 0 THEN [raised |-> "ValueError", value |-> <<>>]
    ELSE [raised |-> "none",
          value |-> CHOOSE m \in {p.eigvals[k] : k \in 1..PvfLen(p)} :
                        \A k \in 1..PvfLen(p) : m <= p.eigvals[k]]

\* GridWorldPVF.max_eigval
max_eigval(p) ==
    IF PvfLen(p) = 0 THEN [raised |-> "ValueError", value |-> <<>>]
    ELSE [raised |-> "none", value |-> MaxOf({p.eigvals[k] : k \in 1..PvfLen(p)})]

RECURSIVE BinSearchLeft(_, _, _, _)
\* numpy's binary search for side='left' on arr[lo..hi) (0-based):
\* while lo < hi: mid = lo + (hi - lo) // 2;
\*   if arr[mid] < key: lo = mid + 1 else: hi = mid
BinSearchLeft(arr, key, lo, hi) ==
    IF lo >= hi THEN lo
    ELSE LET mid == lo + ((hi - lo) \div 2)
         IN  IF arr[mid + 1] < key
             THEN BinSearchLeft(arr, key, mid + 1, hi)
             ELSE BinSearchLeft(arr, key, lo, mid)

RECURSIVE BinSearchRight(_, _, _, _)
BinSearchRight(arr, key, lo, hi) ==
    IF lo >= hi THEN lo
    ELSE LET mid == lo + ((hi - lo) \div 2)
         IN  IF arr[mid + 1] <= key
             THEN BinSearchRight(arr, key, mid + 1, hi)
             ELSE BinSearchRight(arr, key, lo, mid)

\* searchsorted with side='right'.
searchsorted_right(a, v) == BinSearchRight(a, v, 0, Len(a))

\* np.searchsorted(a, v)
searchsorted(a, v) == BinSearchLeft(a, v, 0, Len(a))

\* eigval_index clamped to the last valid index instead of the length.
eigval_index_last(p, eigval) == Min2(searchsorted(p.eigvals, eigval), PvfLen(p) - 1)

\* GridWorldPVF.eigval_index
eigval_index(p, eigval) == Min2(searchsorted(p.eigvals, eigval), PvfLen(p))

------------------------------------------------------------------------------
(* The library driven by an arbitrary caller *)

\* No GridWorldPVF object exists yet.
NoPvf ==
    [raised |-> "unbuilt", eigvals |-> <<>>, eigvecs |-> <<>>,
     normvecs |-> <<>>, rowsums |-> <<>>, activeAt |-> <<>>]

Cells == 0..(width * height - 1)

\* Coordinates and indices tried against an axis of length n: below -n,
\* the negative indices, the valid ones, and n.
Around(n) == (-(n + 1))..n

\* Eigenvalue targets, in quarters: below, inside and above the spectrum.
Targets == (-1)..(2 * One + 1)

\* Slice steps (not 0: slice.indices rejects it).
Steps == {None, Some(-1), Some(2)}

Slices(n) ==
    [start : {None} \cup {Some(i) : i \in Around(n)},
     stop : {None} \cup {Some(i) : i \in Around(n)},
     step : Steps]

\* GridWorld(width, height): every cell active.
Init ==
    /\ \E s \in Shapes : width = s[1] /\ height = s[2]
    /\ active = [c \in 0..(width * height - 1) |-> TRUE]
    /\ pvfs = NoPvf
    /\ ret = [op |-> "GridWorld", args |-> <<width, height>>,
              raised |-> "none", value |-> <<>>]
    /\ current_pvf = 0
    /\ pvfselect_to = 0

\* GridWorld.__getitem__((x, y))
GridGetItem(x, y) ==
    LET c == ActiveCell(width, height, x, y)
    IN  /\ ret' = IF c = -1
                  THEN [op |-> "getitem", args |-> <<x, y>>,
                        raised |-> "IndexError", value |-> <<>>]
                  ELSE [op |-> "getitem", args |-> <<x, y>>,
                        raised |-> "none", value |-> <<c, active[c]>>]
        /\ UNCHANGED <<width, height, active, pvfs, current_pvf, pvfselect_to>>

\* GridWorld.__setitem__((x, y), b)
GridSetItem(x, y, b) ==
    LET c == ActiveCell(width, height, x, y)
    IN  /\ active' = IF c = -1 THEN active ELSE [active EXCEPT ![c] = b]
        /\ ret' = IF c = -1
                  THEN [op |-> "setitem", args |-> <<x, y>>,
                        raised |-> "IndexError", value |-> <<>>]
                  ELSE [op |-> "setitem", args |-> <<x, y>>,
                        raised |-> "none", value |-> <<c, b>>]
        /\ UNCHANGED <<width, height, pvfs, current_pvf, pvfselect_to>>

\* GridWorld.set_all(b)
set_all(b) ==
    /\ active' = [c \in Cells |-> b]
    /\ ret' = [op |-> "set_all", args |-> <<b>>, raised |-> "none", value |-> <<>>]
    /\ UNCHANGED <<width, height, pvfs, current_pvf, pvfselect_to>>

\* pvfs = GridWorldPVF(gridworld): on an exception pvfs is not assigned.
Construct ==
    \E o \in PvfTable[<<width, height, active>>] :
        /\ pvfs' = IF o.raised = "none" THEN o ELSE pvfs
        /\ ret' = [op |-> "GridWorldPVF", args |-> <<>>,
                   raised |-> o.raised, value |-> o.rowsums]
        /\ UNCHANGED <<width, height, active, current_pvf, pvfselect_to>>

\* The grid alone: reads and writes at any coordinates.
GridNext ==
    \/ \E x \in Around(width), y \in Around(height) : GridGetItem(x, y)
    \/ \E x \in Around(width), y \in Around(height), b \in BOOLEAN :
          GridSetItem(x, y, b)
    \/ \E b \in BOOLEAN : set_all(b)

GridSpec == Init /\ [][GridNext]_vars

\* Painting the grid and building bases from it.
Next ==
    \/ \E x \in 0..(width - 1), y \in 0..(height - 1), b \in BOOLEAN :
          GridSetItem(x, y, b)
    \/ \E b \in BOOLEAN : set_all(b)
    \/ Construct

Spec == Init /\ [][Next]_vars

------------------------------------------------------------------------------
(* Queries on a basis *)

\* A basis built from any grid the painting can reach.
QueryInit ==
    /\ \E s \in Shapes : width = s[1] /\ height = s[2]
    /\ active \in [0..(width * height - 1) -> BOOLEAN]
    /\ pvfs \in {o \in PvfTable[<<width, height, active>>] : o.raised = "none"}
    /\ ret = [op |-> "GridWorldPVF", args |-> <<>>,
              raised |-> "none", value |-> pvfs.rowsums]
    /\ current_pvf = 0
    /\ pvfselect_to = 0

\* pvfs[i]
QueryGet(i) ==
    /\ ret.op = "GridWorldPVF"
    /\ ret' = [op |-> "get", args |-> <<i>>] @@ GetInt(pvfs, i)
    /\ UNCHANGED <<width, height, active, pvfs, current_pvf, pvfselect_to>>

\* pvfs[start:stop:step]
QuerySlice(sl) ==
    /\ ret.op = "GridWorldPVF"
    /\ ret' = [op |-> "slice", args |-> sl] @@ GetSlice(pvfs, sl)
    /\ UNCHANGED <<width, height, active, pvfs, current_pvf, pvfselect_to>>

\* pvfs.min_eigval()
QueryMin ==
    /\ ret.op = "GridWorldPVF"
    /\ ret' = [op |-> "min_eigval", args |-> <<>>] @@ min_eigval(pvfs)
    /\ UNCHANGED <<width, height, active, pvfs, current_pvf, pvfselect_to>>

\* pvfs.max_eigval()
QueryMax ==
    /\ ret.op = "GridWorldPVF"
    /\ ret' = [op |-> "max_eigval", args |-> <<>>] @@ max_eigval(pvfs)
    /\ UNCHANGED <<width, height, active, pvfs, current_pvf, pvfselect_to>>

\* pvfs.eigval_index(t)
QueryIndex(t) ==
    /\ ret.op = "GridWorldPVF"
    /\ ret' = [op |-> "eigval_index", args |-> <<t>>,
               raised |-> "none", value |-> eigval_index(pvfs, t)]
    /\ UNCHANGED <<width, height, active, pvfs, current_pvf, pvfselect_to>>

QueryNext ==
    \/ \E i \in Around(PvfLen(pvfs)) : QueryGet(i)
    \/ \E sl \in Slices(PvfLen(pvfs)) : QuerySlice(sl)
    \/ QueryMin
    \/ QueryMax
    \/ \E t \in Targets : QueryIndex(t)

QuerySpec == QueryInit /\ [][QueryNext]_vars

------------------------------------------------------------------------------
(* Application *)

\* Application.recalculate with the outcome o of GridWorldPVF(self._gridworld):
\* the new <<_pvfs, pvfselect's to, _current_pvf, exception>>.  Each step
\* that raises leaves the later ones undone:
\*   self._pvfs = GridWorldPVF(...); pvfselect.config(to=len(self._pvfs));
\*   eigselect.config(to=self._pvfs.max_eigval());
\*   self.show_pvf(self._current_pvf, force_redraw=True)
\* and show_pvf starts with (eigval, pvf) = self._pvfs[index].
recalculate(o) ==
    IF o.raised # "none" THEN <<pvfs, pvfselect_to, current_pvf, o.raised>>
    ELSE IF max_eigval(o).raised # "none"
    THEN <<o, PvfLen(o), current_pvf, max_eigval(o).raised>>
    ELSE <<o, PvfLen(o), current_pvf, GetInt(o, current_pvf).raised>>

\* Application(GridWorld(width, height), ...): _current_pvf = 0, then
\* recalculate() on the fresh grid.
AppInit ==
    /\ \E s \in Shapes : width = s[1] /\ height = s[2]
    /\ active = [c \in 0..(width * height - 1) |-> TRUE]
    /\ \E o \in PvfTable[<<width, height, active>>] :
          /\ o.raised = "none"
          /\ pvfs = o
          /\ pvfselect_to = PvfLen(o)
    /\ current_pvf = 0
    /\ ret = [op |-> "Application", args |-> <<width, height>>,
              raised |-> "none", value |-> <<>>]

\* Application.set_cell(x, y, a): (x, y) is the cell under the pointer, which
\* may be outside the canvas while a button is held.
set_cell(x, y, a) ==
    IF /\ 0 <= x /\ x < width /\ 0 <= y /\ y < height
       /\ active[ActiveCell(width, height, x, y)] # a
    THEN /\ active' = [active EXCEPT ![ActiveCell(width, height, x, y)] = a]
         /\ \E o \in PvfTable[<<width, height, active'>>] :
               LET r == recalculate(o)
               IN  /\ pvfs' = r[1]
                   /\ pvfselect_to' = r[2]
                   /\ current_pvf' = r[3]
                   /\ ret' = [op |-> "set_cell", args |-> <<x, y, a>>,
                              raised |-> r[4], value |-> <<>>]
         /\ UNCHANGED <<width, height>>
    ELSE /\ ret' = [op |-> "set_cell", args |-> <<x, y, a>>,
                    raised |-> "none", value |-> <<>>]
         /\ UNCHANGED <<width, height, active, pvfs, current_pvf, pvfselect_to>>

\* Application.reset_cells
reset_cells ==
    /\ active' = [c \in Cells |-> TRUE]
    /\ \E o \in PvfTable[<<width, height, active'>>] :
          LET r == recalculate(o)
          IN  /\ pvfs' = r[1]
              /\ pvfselect_to' = r[2]
              /\ current_pvf' = r[3]
              /\ ret' = [op |-> "reset_cells", args |-> <<>>,
                         raised |-> r[4], value |-> <<>>]
    /\ UNCHANGED <<width, height>>

\* Application._handle_pvfselect(index): show_pvf(int(index) - 1); the PVF
\* scale offers the values from_ = 1 .. to.
handle_pvfselect(index) ==
    LET got == GetInt(pvfs, index - 1)
    IN  /\ current_pvf' = IF got.raised = "none" THEN index - 1 ELSE current_pvf
        /\ ret' = [op |-> "_handle_pvfselect", args |-> <<index>>,
                   raised |-> got.raised, value |-> <<>>]
        /\ UNCHANGED <<width, height, active, pvfs, pvfselect_to>>

AppNext ==
    \/ \E x \in (-1)..width, y \in (-1)..height, a \in BOOLEAN : set_cell(x, y, a)
    \/ reset_cells
    \/ \E index \in 1..pvfselect_to : handle_pvfselect(index)

AppSpec == AppInit /\ [][AppNext]_vars

------------------------------------------------------------------------------
(* Properties *)

RECURSIVE RangeSeq(_, _, _)
\* list(range(start, stop, step)), step # 0
RangeSeq(start, stop, step) ==
    IF (step > 0 /\ start >= stop) \/ (step < 0 /\ start <= stop) THEN <<>>
    ELSE <<start>> \o RangeSeq(start + step, stop, step)

\* C1: pvfs[s] for a slice s is [pvfs[j] for j in range(*s.indices(len))],
\* in that order, and does not raise.
C1_SliceIsStandard ==
    ret.op = "slice" =>
        LET ind == SliceIndices(ret.args, PvfLen(pvfs))
            want == GetEach(pvfs, RangeSeq(ind[1], ind[2], ind[3]))
        IN  ret.raised = "none" /\ ret.value = want.value

\* The eigenvalues, 0-based.
Eigval(i) == pvfs.eigvals[i + 1]

\* C2 as stated: eigval_index(eigvals[i]) = i for every valid i.
C2_RoundTripExact ==
    ret.op = "eigval_index" =>
        \A i \in 0..(PvfLen(pvfs) - 1) :
            Eigval(i) = ret.args[1] => ret.value = i

\* C2 amended: eigval_index(eigvals[i]) is the first index holding the value
\* eigvals[i]; it is i exactly when no earlier eigenvalue equals eigvals[i].
C2_RoundTripFirst ==
    ret.op = "eigval_index" =>
        \A i \in 0..(PvfLen(pvfs) - 1) :
            Eigval(i) = ret.args[1] =>
                /\ ret.value <= i
                /\ Eigval(ret.value) = Eigval(i)
                /\ \A j \in 0..(ret.value - 1) : Eigval(j) < Eigval(i)
                /\ (ret.value = i) <=> (i = 0 \/ Eigval(i - 1) < Eigval(i))

\* A round trip on a repeated eigenvalue, from its second occurrence.
C2_Witness ==
    /\ ret.op = "eigval_index"
    /\ \E i \in 1..(PvfLen(pvfs) - 1) :
          /\ Eigval(i) = ret.args[1]
          /\ Eigval(i - 1) = Eigval(i)
          /\ ret.value < i

\* C3: eigval_index(t) is the smallest i with eigvals[i] >= t, the length
\* when t is above every eigenvalue, and always within 0..length.
C3_LowerBound ==
    ret.op = "eigval_index" =>
        LET n == PvfLen(pvfs)
            ge == {i \in 0..(n - 1) : Eigval(i) >= ret.args[1]}
        IN  /\ ret.value \in 0..n
            /\ ge = {} => ret.value = n
            /\ ge # {} => ret.value \in ge /\ \A i \in ge : ret.value <= i

\* A target above the largest of several eigenvalues answered by the length,
\* and one inside the spectrum answered by an inner index.
C3_Witness ==
    /\ ret.op = "eigval_index"
    /\ PvfLen(pvfs) >= 2
    /\ ret.args[1] > max_eigval(pvfs).value
    /\ ret.value = PvfLen(pvfs)

\* C4: reading or writing a cell at coordinates outside the grid raises.
C4_BoundsChecked ==
    (/\ ret.op \in {"getitem", "setitem"}
     /\ ~ (/\ ret.args[1] \in 0..(width - 1)
           /\ ret.args[2] \in 0..(height - 1)))
        => ret.raised = "IndexError"

\* C5: every construction yields a basis whose length is the number of
\* cells active at that time (0 when none is).
C5_LengthIsActiveCount ==
    ret.op = "GridWorldPVF" =>
        /\ ret.raised = "none"
        /\ pvfs.activeAt = active
        /\ PvfLen(pvfs) = NumActive(active)

\* C6: a construction from a grid without active cells succeeds and yields
\* the empty basis, whose queries fail.
C6_EmptyBuildSucceeds ==
    (ret.op = "GridWorldPVF" /\ NumActive(active) = 0) =>
        /\ ret.raised = "none"
        /\ pvfs.activeAt = active
        /\ PvfLen(pvfs) = 0
        /\ GetInt(pvfs, 0).raised # "none"
        /\ min_eigval(pvfs).raised # "none"
        /\ max_eigval(pvfs).raised # "none"

\* C7: in every normalized eigenvector the components lie in [-1, 1] and one
\* of them is exactly +1.
C7_LargestComponentIsPlusOne ==
    pvfs.raised = "none" =>
        \A k \in 1..PvfLen(pvfs) :
            /\ \A j \in 1..PvfLen(pvfs) :
                  Abs(pvfs.normvecs[j][k][1]) <= pvfs.normvecs[j][k][2]
            /\ \E j \in 1..PvfLen(pvfs) : pvfs.normvecs[j][k] = <<1, 1>>

\* The number of cells up to c that the mask of the basis selects.
Rank(c) == Cardinality({d \in 0..c : pvfs.activeAt[d]})

\* The cells adjacent to c in the grid and selected by the mask of the basis.
ActiveNeighbours(c) ==
    {d \in Cells : pvfs.activeAt[d] /\ graph(width, height, c, d) # 0}

\* Basis function k at cell c, times the product of all denominators of
\* that basis function (an integer).
Scaled(k, c) ==
    LET den == [d \in Cells |-> pvfs.eigvecs[d][k][2]]
        RECURSIVE Prod(_)
        Prod(d) == IF d < 0 THEN 1 ELSE den[d] * Prod(d - 1)
    IN  pvfs.eigvecs[c][k][1] * (Prod(width * height - 1) \div den[c])

\* C8: basis function k is 0 at every inactive cell and holds component j of
\* the normalized eigenvector k at the j-th active cell; with that placement
\* it is an eigenfunction, for eigenvalue k, of the Laplacian of the active
\* part of the grid ((L f)(c) = sum of (f(c) - f(d)) / 4 over the active
\* neighbours d): extraction and re-embedding use the same order.
C8_ReEmbedding ==
    pvfs.raised = "none" =>
        \A k \in 1..PvfLen(pvfs) : \A c \in Cells :
            IF pvfs.activeAt[c]
            THEN /\ pvfs.eigvecs[c][k] = pvfs.normvecs[Rank(c)][k]
                 /\ SumTo([i \in 1..(width * height) |->
                              IF (i - 1) \in ActiveNeighbours(c)
                              THEN Scaled(k, c) - Scaled(k, i - 1) ELSE 0],
                          width * height)
                      = pvfs.eigvals[k] * Scaled(k, c)
            ELSE pvfs.eigvecs[c][k] = FracZero

\* A basis of a grid whose first cell is inactive and that has two active
\* cells after it, with a basis function taking different values on them.
C8_Witness ==
    /\ pvfs.raised = "none"
    /\ PvfLen(pvfs) >= 2
    /\ ~ pvfs.activeAt[0]
    /\ \E k \in 1..PvfLen(pvfs) : \E c, d \in Cells :
          /\ pvfs.activeAt[c] /\ pvfs.activeAt[d]
          /\ pvfs.eigvecs[c][k] # pvfs.eigvecs[d][k]
          /\ pvfs.eigvecs[c][k] # FracZero

\* C9: after the degree correction every column sum handed to np.sqrt is
\* exactly 1, so no division by a zero root happens and the construction
\* never yields a non-finite Laplacian.
C9_RowSumsAreOne ==
    ret.op = "GridWorldPVF" =>
        /\ \A j \in DOMAIN ret.value : ret.value[j] = One
        /\ ret.raised \notin {"nonfinite", "inexact"}

\* A construction from a grid with an active cell that has no active
\* neighbour, beside other active cells.
C9_Witness ==
    /\ ret.op = "GridWorldPVF"
    /\ ret.raised = "none"
    /\ pvfs.activeAt = active
    /\ NumActive(active) >= 2
    /\ \E c \in Cells : active[c] /\ ActiveNeighbours(c) = {}

\* C10: no handler of the application raises: every recalculate() and every
\* show_pvf() runs to completion.
C10_HandlersComplete == ret.raised = "none"

====
